---------------------------- MODULE Spec2Model ----------------------------
(***************************************************************************)
(* Model of the Inmos link controller module (Inmos.py): the Interface     *)
(* class, which maps named IMSC012 signals onto MCP23017 port B bits and   *)
(* the data bus onto port A, and the Link class, which sequences Interface *)
(* calls into register accesses of the link adapter.                       *)
(*                                                                         *)
(* One step of the model is one I2C transaction (gpio.read / gpio.write).  *)
(* A caller executes a Link operation as the list of Interface calls the   *)
(* method body makes, each Interface call as its list of transactions.     *)
(***************************************************************************)
EXTENDS Integers, Sequences, FiniteSets, TLC

\* ------------------------------------------------------------------ bounds
\* data bytes range over 0..MaxData
MaxData == 2
\* a direct set_signals call names at most MaxKw signals
MaxKw == 2

Bytes == 0..MaxData
Callers == {1, 2}

\* ------------------------------------------------------------ signal table
SIGNALS == << "RnotW", "RS0", "RS1", "NotCS", "LinkSpeed", "Reset", "Status", "LinkReset" >>

SignalNames == { SIGNALS[i] : i \in 1..Len(SIGNALS) }

\* SIGNALS.index(s), zero based
index(s) == (CHOOSE i \in 1..Len(SIGNALS) : SIGNALS[i] = s) - 1

\* ------------------------------------------------- bit operations on a byte
\* 1 << i
shl1(i) == 2 ^ i

Bit(w, i) == (w \div shl1(i)) % 2

\* w | (1 << i)
OrBit(w, i) == IF Bit(w, i) = 1 THEN w ELSE w + shl1(i)

\* mutant of AndNotBit: the bit is never cleared
AndNotBit_keeps_bit(w, i) == w

\* w & ~(1 << i)
AndNotBit(w, i) == IF Bit(w, i) = 1 THEN w - shl1(i) ELSE w

\* mutant of XorBit: the bit is set, whatever its level was
XorBit_sets_bit(w, i) == IF Bit(w, i) = 1 THEN w ELSE w + shl1(i)

\* w ^ (1 << i)
XorBit(w, i) == IF Bit(w, i) = 1 THEN w - shl1(i) ELSE w + shl1(i)

\* the level of a named signal in a control word
Sig(w, s) == Bit(w, index(s)) = 1

\* ------------------------------------------------------ MCP23017 constants
INPUT == "INPUT"
OUTPUT == "OUTPUT"

VARIABLES
    IODIRA,         \* MCP23017 port A direction register (data bus)
    IODIRB,         \* MCP23017 port B direction register (control signals)
    OLATA,          \* MCP23017 port A output latch
    OLATB,          \* MCP23017 port B output latch: the control register
    ISR,            \* link adapter input status register
    OSR,            \* link adapter output status register
    IDR,            \* link adapter input data register
    link,           \* per caller: the Link object (constructed, linkspeed)
    call,           \* per caller: the operation in progress, or Idle
    todo,           \* per caller: the Interface calls the operation has still to make
    ipc,            \* per caller: transactions done inside the current Interface call
    control_word,   \* per caller: local of set_signals / value read by strobe_signal
    data,           \* per caller: local holding the byte read_data returned
    exc,            \* per caller: the exception the operation raised, or "none"
    pre,            \* per caller: the registers when the operation was entered
    log             \* per caller: the transactions the operation issued so far

hw == << IODIRA, IODIRB, OLATA, OLATB >>
adapter == << ISR, OSR, IDR >>
vars == << IODIRA, IODIRB, OLATA, OLATB, ISR, OSR, IDR, link, call, todo, ipc,
           control_word, data, exc, pre, log >>

Idle == [name |-> "idle", arg |-> << >>]
NoLink == [constructed |-> FALSE, linkspeed |-> 0]
Registers == [IODIRA |-> IODIRA, IODIRB |-> IODIRB, OLATA |-> OLATA, OLATB |-> OLATB]
\* the value of pre while no operation is in progress
NoFrame == [IODIRA |-> INPUT, IODIRB |-> OUTPUT, OLATA |-> 0, OLATB |-> 0]

\* ----------------------------------------------------------- data bus pins
\* What a read of GPIOA returns: the host's own latch while port A is an
\* output; the adapter register selected by (RS1, RS0) while the adapter is
\* addressed for a read (NotCS low, RnotW high); otherwise the bus floats.
GPIOA ==
    IF IODIRA = OUTPUT THEN {OLATA}
    ELSE IF ~Sig(OLATB, "NotCS") /\ Sig(OLATB, "RnotW")
         THEN IF Sig(OLATB, "RS1")
              THEN (IF Sig(OLATB, "RS0") THEN {OSR} ELSE {ISR})
              ELSE (IF Sig(OLATB, "RS0") THEN Bytes ELSE {IDR})
         ELSE Bytes

\* ------------------------------------------------ Interface calls, as data
SetSignals(kw) == [fn |-> "set_signals", kw |-> kw, args |-> << >>, data |-> 0]
Strobe(args) == [fn |-> "strobe_signal", kw |-> << >>, args |-> args, data |-> 0]
ReadData == [fn |-> "read_data", kw |-> << >>, args |-> << >>, data |-> 0]
WriteData(d) == [fn |-> "write_data", kw |-> << >>, args |-> << >>, data |-> d]
NewInterface == [fn |-> "Interface", kw |-> << >>, args |-> << >>, data |-> 0]
Raise(e) == [fn |-> "raise", kw |-> << >>, args |-> << e >>, data |-> 0]

\* ------------------------------------------------------- Link method bodies
\* mutant of Link_init: the two link speeds drive LinkSpeed the wrong way round
Link_init_speed_swapped(given, linkspeed) ==
    (IF given THEN << >> ELSE << NewInterface >>)
    \o << SetSignals([Reset |-> TRUE, NotCS |-> TRUE]) >>
    \o (IF linkspeed = 10 THEN << SetSignals([LinkSpeed |-> TRUE]) >>
        ELSE IF linkspeed = 20 THEN << SetSignals([LinkSpeed |-> FALSE]) >>
        ELSE << Raise("ValueError") >>)
    \o << SetSignals([Reset |-> FALSE]) >>

\* mutant of Link_init: Reset is deasserted before LinkSpeed is written
Link_init_speed_after_reset(given, linkspeed) ==
    (IF given THEN << >> ELSE << NewInterface >>)
    \o << SetSignals([Reset |-> TRUE, NotCS |-> TRUE]) >>
    \o << SetSignals([Reset |-> FALSE]) >>
    \o (IF linkspeed = 10 THEN << SetSignals([LinkSpeed |-> FALSE]) >>
        ELSE IF linkspeed = 20 THEN << SetSignals([LinkSpeed |-> TRUE]) >>
        ELSE << Raise("ValueError") >>)

\* Link.__init__(interface, linkspeed); given = an existing Interface is passed
Link_init(given, linkspeed) ==
    (IF given THEN << >> ELSE << NewInterface >>)
    \o << SetSignals([Reset |-> TRUE, NotCS |-> TRUE]) >>
    \o (IF linkspeed = 10 THEN << SetSignals([LinkSpeed |-> FALSE]) >>
        ELSE IF linkspeed = 20 THEN << SetSignals([LinkSpeed |-> TRUE]) >>
        ELSE << Raise("ValueError") >>)
    \o << SetSignals([Reset |-> FALSE]) >>

\* mutant of data_present: the output status register is selected
data_present_selects_osr ==
    << SetSignals([RnotW |-> TRUE, RS0 |-> TRUE, RS1 |-> TRUE, Status |-> TRUE]),
       SetSignals([NotCS |-> FALSE]),
       ReadData,
       SetSignals([NotCS |-> TRUE, Status |-> FALSE]) >>

data_present ==
    << SetSignals([RnotW |-> TRUE, RS0 |-> FALSE, RS1 |-> TRUE, Status |-> TRUE]),
       SetSignals([NotCS |-> FALSE]),
       ReadData,
       SetSignals([NotCS |-> TRUE, Status |-> FALSE]) >>

output_ready ==
    << SetSignals([RnotW |-> TRUE, RS0 |-> TRUE, RS1 |-> TRUE, Status |-> TRUE]),
       SetSignals([NotCS |-> FALSE]),
       ReadData,
       SetSignals([NotCS |-> TRUE, Status |-> FALSE]) >>

\* mutant of enable_interrupts: the first write is not strobed
enable_interrupts_one_strobe ==
    << SetSignals([RnotW |-> FALSE, RS0 |-> FALSE, RS1 |-> TRUE, Status |-> TRUE]),
       WriteData(2),
       SetSignals([RnotW |-> FALSE, RS0 |-> TRUE, RS1 |-> TRUE]),
       WriteData(2),
       Strobe(<< "NotCS" >>),
       SetSignals([Status |-> FALSE]) >>

enable_interrupts ==
    << SetSignals([RnotW |-> FALSE, RS0 |-> FALSE, RS1 |-> TRUE, Status |-> TRUE]),
       WriteData(2),
       Strobe(<< "NotCS" >>),
       SetSignals([RnotW |-> FALSE, RS0 |-> TRUE, RS1 |-> TRUE]),
       WriteData(2),
       Strobe(<< "NotCS" >>),
       SetSignals([Status |-> FALSE]) >>

disable_interrupts ==
    << SetSignals([RnotW |-> FALSE, RS0 |-> FALSE, RS1 |-> TRUE, Status |-> TRUE]),
       WriteData(0),
       Strobe(<< "NotCS" >>),
       SetSignals([RnotW |-> FALSE, RS0 |-> TRUE, RS1 |-> TRUE]),
       WriteData(0),
       Strobe(<< "NotCS" >>),
       SetSignals([Status |-> FALSE]) >>

\* mutant of write: Status is not cleared at the end
write_keeps_status(d) ==
    << SetSignals([RnotW |-> FALSE, RS0 |-> TRUE, RS1 |-> FALSE, Status |-> TRUE]),
       WriteData(d),
       Strobe(<< "NotCS" >>) >>

\* mutant of write: chip-select is strobed before the byte is latched
write_strobe_first(d) ==
    << SetSignals([RnotW |-> FALSE, RS0 |-> TRUE, RS1 |-> FALSE, Status |-> TRUE]),
       Strobe(<< "NotCS" >>),
       WriteData(d),
       SetSignals([Status |-> FALSE]) >>

write(d) ==
    << SetSignals([RnotW |-> FALSE, RS0 |-> TRUE, RS1 |-> FALSE, Status |-> TRUE]),
       WriteData(d),
       Strobe(<< "NotCS" >>),
       SetSignals([Status |-> FALSE]) >>

\* mutant of read: the register is selected in the write that asserts chip-select
read_select_with_cs ==
    << SetSignals([RnotW |-> TRUE, RS0 |-> FALSE, RS1 |-> FALSE, Status |-> TRUE,
                   NotCS |-> FALSE]),
       ReadData,
       SetSignals([NotCS |-> TRUE, Status |-> FALSE]) >>

\* mutant of read: the bus is read without asserting chip-select
read_without_select ==
    << SetSignals([RnotW |-> TRUE, RS0 |-> FALSE, RS1 |-> FALSE, Status |-> TRUE]),
       ReadData,
       SetSignals([NotCS |-> TRUE, Status |-> FALSE]) >>

read ==
    << SetSignals([RnotW |-> TRUE, RS0 |-> FALSE, RS1 |-> FALSE, Status |-> TRUE]),
       SetSignals([NotCS |-> FALSE]),
       ReadData,
       SetSignals([NotCS |-> TRUE, Status |-> FALSE]) >>

\* mutant of reset: the adapter's Reset line is strobed instead of LinkReset
reset_strobes_Reset(args) ==
    IF Len(args) = 0 THEN << Strobe(<< "Reset" >>) >>
    ELSE << SetSignals([LinkReset |-> args[1]]) >>

\* Link.reset(*args)
reset(args) ==
    IF Len(args) = 0 THEN << Strobe(<< "LinkReset" >>) >>
    ELSE << SetSignals([LinkReset |-> args[1]]) >>

\* ------------------------------------------------------------------- Init
\* no caller has made a call yet
InitCallers ==
    /\ link = [c \in Callers |-> NoLink]
    /\ call = [c \in Callers |-> Idle]
    /\ todo = [c \in Callers |-> << >>]
    /\ ipc = [c \in Callers |-> 0]
    /\ control_word = [c \in Callers |-> 0]
    /\ data = [c \in Callers |-> 0]
    /\ exc = [c \in Callers |-> "none"]
    /\ pre = [c \in Callers |-> NoFrame]
    /\ log = [c \in Callers |-> << >>]

\* the expander as Interface.__init__ leaves it, the adapter in any state
Init ==
    /\ IODIRA = INPUT
    /\ IODIRB = OUTPUT
    /\ OLATA = 0
    /\ OLATB = 0
    /\ ISR \in Bytes
    /\ OSR \in Bytes
    /\ IDR \in Bytes
    /\ InitCallers


\* --------------------------------------------------- MCP23017 gpio access
\* gpio.write(reg, val)
gpio_write(reg, val) ==
    /\ IODIRA' = IF reg = "IODIRA" THEN val ELSE IODIRA
    /\ IODIRB' = IF reg = "IODIRB" THEN val ELSE IODIRB
    /\ OLATA' = IF reg = "OLATA" THEN val ELSE OLATA
    /\ OLATB' = IF reg = "OLATB" THEN val ELSE OLATB

\* the transaction is appended to the caller's log, with the control
\* register as it stood when the transaction was issued
Logged(c, rw, reg, val) ==
    log' = [log EXCEPT ![c] = Append(@, [rw |-> rw, reg |-> reg, val |-> val, ctl |-> OLATB])]

\* ------------------------------------------------------ control of a caller
Running(c, fn) == todo[c] # << >> /\ Head(todo[c]).fn = fn

Cur(c) == Head(todo[c])

\* the current Interface call goes on to its next transaction
Advance(c) ==
    /\ ipc' = [ipc EXCEPT ![c] = @ + 1]
    /\ UNCHANGED << todo, call, exc, link >>

\* the current Interface call returns to the Link method
Pop(c) ==
    /\ ipc' = [ipc EXCEPT ![c] = 0]
    /\ todo' = [todo EXCEPT ![c] = Tail(@)]
    /\ UNCHANGED << call, exc, link >>

\* mutant of Throw: the exception is noted and the operation carries on
Throw_swallowed(c, e) ==
    /\ ipc' = [ipc EXCEPT ![c] = 0]
    /\ todo' = [todo EXCEPT ![c] = Tail(@)]
    /\ exc' = [exc EXCEPT ![c] = e]
    /\ UNCHANGED << call, link >>

\* an exception unwinds the operation: it makes no further Interface call
Throw(c, e) ==
    /\ ipc' = [ipc EXCEPT ![c] = 0]
    /\ todo' = [todo EXCEPT ![c] = << >>]
    /\ exc' = [exc EXCEPT ![c] = e]
    /\ UNCHANGED << call, link >>

\* a caller enters an operation whose body makes the Interface calls `body`
Enter(c, name, arg, body) ==
    /\ call[c] = Idle
    /\ call' = [call EXCEPT ![c] = [name |-> name, arg |-> arg]]
    /\ todo' = [todo EXCEPT ![c] = body]
    /\ ipc' = [ipc EXCEPT ![c] = 0]
    /\ pre' = [pre EXCEPT ![c] = Registers]
    /\ log' = [log EXCEPT ![c] = << >>]
    /\ UNCHANGED << hw, adapter, link, control_word, data, exc >>

\* --------------------------------------------------- Interface.__init__
Interface_init(c) ==
    /\ Running(c, "Interface")
    /\ \/ /\ ipc[c] = 0
          /\ gpio_write("IODIRA", INPUT)
          /\ Logged(c, "w", "IODIRA", INPUT)
          /\ Advance(c)
       \/ /\ ipc[c] = 1
          /\ gpio_write("IODIRB", OUTPUT)
          /\ Logged(c, "w", "IODIRB", OUTPUT)
          /\ Advance(c)
       \/ /\ ipc[c] = 2
          /\ gpio_write("OLATB", 0)
          /\ Logged(c, "w", "OLATB", 0)
          /\ Pop(c)
    /\ UNCHANGED << adapter, control_word, data, pre >>

\* ---------------------------------------------------- Interface.read_data
read_data_dir(c) ==
    /\ Running(c, "read_data")
    /\ ipc[c] = 0
    /\ gpio_write("IODIRA", INPUT)
    /\ Logged(c, "w", "IODIRA", INPUT)
    /\ Advance(c)
    /\ UNCHANGED << adapter, control_word, data, pre >>

read_data_sample(c) ==
    /\ Running(c, "read_data")
    /\ ipc[c] = 1
    /\ \E v \in GPIOA :
          /\ data' = [data EXCEPT ![c] = v]
          /\ Logged(c, "r", "GPIOA", v)
    /\ Pop(c)
    /\ UNCHANGED << hw, adapter, control_word, pre >>

\* --------------------------------------------------- Interface.write_data
write_data_dir(c) ==
    /\ Running(c, "write_data")
    /\ ipc[c] = 0
    /\ gpio_write("IODIRA", OUTPUT)
    /\ Logged(c, "w", "IODIRA", OUTPUT)
    /\ Advance(c)
    /\ UNCHANGED << adapter, control_word, data, pre >>

write_data_latch(c) ==
    /\ Running(c, "write_data")
    /\ ipc[c] = 1
    /\ gpio_write("OLATA", Cur(c).data)
    /\ Logged(c, "w", "OLATA", Cur(c).data)
    /\ Pop(c)
    /\ UNCHANGED << adapter, control_word, data, pre >>

\* -------------------------------------------------- Interface.set_signals
\* the loop over kwargs.keys(): set or clear the bit of each named signal
RECURSIVE ApplyKw(_, _, _)
ApplyKw(w, kw, keys) ==
    IF keys = {} THEN w
    ELSE LET s == CHOOSE k \in keys : TRUE
             w1 == IF kw[s] THEN OrBit(w, index(s)) ELSE AndNotBit(w, index(s))
         IN  ApplyKw(w1, kw, keys \ {s})

\* control_word = self.gpio.read(MCP23017.OLATB)
set_signals_read(c) ==
    /\ Running(c, "set_signals")
    /\ ipc[c] = 0
    /\ control_word' = [control_word EXCEPT ![c] = OLATB]
    /\ Logged(c, "r", "OLATB", OLATB)
    /\ Advance(c)
    /\ UNCHANGED << hw, adapter, data, pre >>

\* mutant of set_signals_raise: the bits of the valid names are written
\* before the error is raised
set_signals_raise_after_write(c) ==
    /\ Running(c, "set_signals")
    /\ ipc[c] = 1
    /\ ~(DOMAIN Cur(c).kw \subseteq SignalNames)
    /\ LET w == ApplyKw(control_word[c], Cur(c).kw, DOMAIN Cur(c).kw \cap SignalNames)
       IN  /\ gpio_write("OLATB", w)
           /\ Logged(c, "w", "OLATB", w)
    /\ Throw(c, "ValueError")
    /\ UNCHANGED << adapter, control_word, data, pre >>

\* SIGNALS.index(s) raises ValueError for a name that is not in the table
set_signals_raise(c) ==
    /\ Running(c, "set_signals")
    /\ ipc[c] = 1
    /\ ~(DOMAIN Cur(c).kw \subseteq SignalNames)
    /\ Throw(c, "ValueError")
    /\ UNCHANGED << hw, adapter, control_word, data, pre, log >>

\* self.gpio.write(MCP23017.OLATB, control_word)
set_signals_write(c) ==
    /\ Running(c, "set_signals")
    /\ ipc[c] = 1
    /\ DOMAIN Cur(c).kw \subseteq SignalNames
    /\ LET w == ApplyKw(control_word[c], Cur(c).kw, DOMAIN Cur(c).kw)
       IN  /\ gpio_write("OLATB", w)
           /\ Logged(c, "w", "OLATB", w)
    /\ Pop(c)
    /\ UNCHANGED << adapter, control_word, data, pre >>

\* ------------------------------------------------ Interface.strobe_signal
\* mutant of StrobeWrites: the loop runs once
StrobeOnce == 2 - 1

\* for t in range(0,2)
StrobeWrites == 2

\* mutant of strobe_signal_check: the control register is read before the
\* argument count is tested
strobe_signal_check_after_read(c) ==
    /\ Running(c, "strobe_signal")
    /\ ipc[c] = 0
    /\ Len(Cur(c).args) > 1
    /\ control_word' = [control_word EXCEPT ![c] = OLATB]
    /\ Logged(c, "r", "OLATB", OLATB)
    /\ Throw(c, "AttributeError")
    /\ UNCHANGED << hw, adapter, data, pre >>

\* if len(args) > 1: raise AttributeError
strobe_signal_check(c) ==
    /\ Running(c, "strobe_signal")
    /\ ipc[c] = 0
    /\ Len(Cur(c).args) > 1
    /\ Throw(c, "AttributeError")
    /\ UNCHANGED << hw, adapter, control_word, data, pre, log >>

\* self.gpio.read(MCP23017.OLATB), the left operand of ^, is evaluated first
strobe_signal_read(c) ==
    /\ Running(c, "strobe_signal")
    /\ ipc[c] < 2 * StrobeWrites
    /\ ipc[c] % 2 = 0
    /\ Len(Cur(c).args) <= 1
    /\ control_word' = [control_word EXCEPT ![c] = OLATB]
    /\ Logged(c, "r", "OLATB", OLATB)
    /\ Advance(c)
    /\ UNCHANGED << hw, adapter, data, pre >>

\* args[0] raises IndexError without arguments, SIGNALS.index ValueError
\* for a name that is not in the table
strobe_signal_raise(c) ==
    /\ Running(c, "strobe_signal")
    /\ ipc[c] % 2 = 1
    /\ \/ /\ Len(Cur(c).args) = 0
          /\ Throw(c, "IndexError")
       \/ /\ Len(Cur(c).args) = 1
          /\ Cur(c).args[1] \notin SignalNames
          /\ Throw(c, "ValueError")
    /\ UNCHANGED << hw, adapter, control_word, data, pre, log >>

\* self.gpio.write(MCP23017.OLATB, <value read> ^ (1 << SIGNALS.index(args[0])))
strobe_signal_write(c) ==
    /\ Running(c, "strobe_signal")
    /\ ipc[c] % 2 = 1
    /\ Len(Cur(c).args) = 1
    /\ Cur(c).args[1] \in SignalNames
    /\ LET w == XorBit(control_word[c], index(Cur(c).args[1]))
       IN  /\ gpio_write("OLATB", w)
           /\ Logged(c, "w", "OLATB", w)
    /\ IF ipc[c] + 1 < 2 * StrobeWrites THEN Advance(c) ELSE Pop(c)
    /\ UNCHANGED << adapter, control_word, data, pre >>

\* ------------------------------------------------- raise in a method body
raise(c) ==
    /\ Running(c, "raise")
    /\ Throw(c, Cur(c).args[1])
    /\ UNCHANGED << hw, adapter, control_word, data, pre, log >>

\* ------------------------------------------------------ return to caller
\* the value the operation returns
ReturnValue(c) ==
    CASE call[c].name = "read" -> data[c]
      [] call[c].name \in {"data_present", "output_ready"} -> (data[c] % 2 = 1)
      [] call[c].name = "read_data" -> data[c]
      [] OTHER -> "None"

\* the operation has made its last Interface call, or has raised
AtReturn(c) == call[c] # Idle /\ todo[c] = << >>

\* control goes back to the caller, with the return value or the exception;
\* the frame's locals go away, and a Link whose __init__ raised is not created
Return(c) ==
    /\ AtReturn(c)
    /\ call' = [call EXCEPT ![c] = Idle]
    /\ link' = IF call[c].name = "Link" /\ exc[c] = "none"
               THEN [link EXCEPT ![c] = [constructed |-> TRUE, linkspeed |-> call[c].arg[2]]]
               ELSE link
    /\ exc' = [exc EXCEPT ![c] = "none"]
    /\ control_word' = [control_word EXCEPT ![c] = 0]
    /\ data' = [data EXCEPT ![c] = 0]
    /\ pre' = [pre EXCEPT ![c] = NoFrame]
    /\ log' = [log EXCEPT ![c] = << >>]
    /\ UNCHANGED << hw, adapter, todo, ipc >>

\* ------------------------------------------------------------ environment
\* the link adapter updates its registers between the host's operations
AdapterUpdate ==
    /\ \A c \in Callers : call[c] = Idle
    /\ \E v \in Bytes :
          \/ ISR' = v /\ UNCHANGED << OSR, IDR >>
          \/ OSR' = v /\ UNCHANGED << ISR, IDR >>
          \/ IDR' = v /\ UNCHANGED << ISR, OSR >>
    /\ UNCHANGED << hw, link, call, todo, ipc, control_word, data, exc, pre, log >>

\* --------------------------------------------- one caller driving one Link
LinkSpeeds == {10, 15, 20}

Construct(c) ==
    /\ ~link[c].constructed
    /\ \E given \in BOOLEAN, ls \in LinkSpeeds :
          Enter(c, "Link", << given, ls >>, Link_init(given, ls))

CallLink(c) ==
    /\ link[c].constructed
    /\ \/ Enter(c, "data_present", << >>, data_present)
       \/ Enter(c, "output_ready", << >>, output_ready)
       \/ Enter(c, "enable_interrupts", << >>, enable_interrupts)
       \/ Enter(c, "disable_interrupts", << >>, disable_interrupts)
       \/ \E d \in Bytes : Enter(c, "write", << d >>, write(d))
       \/ Enter(c, "read", << >>, read)
       \/ Enter(c, "reset", << >>, reset(<< >>))
       \/ \E b \in BOOLEAN : Enter(c, "reset", << b >>, reset(<< b >>))

\* the transactions of the Interface calls a Link method makes
StepLink(c) ==
    \/ Interface_init(c)
    \/ read_data_dir(c)
    \/ read_data_sample(c)
    \/ write_data_dir(c)
    \/ write_data_latch(c)
    \/ set_signals_read(c)
    \/ set_signals_write(c)
    \/ strobe_signal_read(c)
    \/ strobe_signal_write(c)
    \/ raise(c)
    \/ Return(c)

Next ==
    \/ Construct(1)
    \/ CallLink(1)
    \/ StepLink(1)
    \/ AdapterUpdate

Spec == Init /\ [][Next]_vars

\* ------------------------- one caller using the Interface's signal methods
\* the names a caller may pass: the table's, and one that is not in it
Names == SignalNames \cup {"Bogus"}

\* keyword arguments naming at most MaxKw signals
Kwargs == UNION { [D -> BOOLEAN] : D \in { D \in SUBSET Names : Cardinality(D) <= MaxKw } }

\* positional arguments of strobe_signal: none, one name, or two names
StrobeArgs ==
    {<< >>} \cup { << a >> : a \in Names }
            \cup { << a, b >> : a \in {"NotCS", "LinkReset"}, b \in {"NotCS", "LinkReset"} }

\* the control register in any state earlier calls may have left it in
InitIface ==
    /\ IODIRA = INPUT
    /\ IODIRB = OUTPUT
    /\ OLATA = 0
    /\ OLATB \in 0..255
    /\ ISR = 0
    /\ OSR = 0
    /\ IDR = 0
    /\ InitCallers

CallInterface(c) ==
    /\ call[c] = Idle
    /\ \/ \E kw \in Kwargs : Enter(c, "set_signals", << kw >>, << SetSignals(kw) >>)
       \/ \E args \in StrobeArgs : Enter(c, "strobe_signal", args, << Strobe(args) >>)

StepInterface(c) ==
    \/ set_signals_read(c)
    \/ set_signals_raise(c)
    \/ set_signals_write(c)
    \/ strobe_signal_check(c)
    \/ strobe_signal_read(c)
    \/ strobe_signal_raise(c)
    \/ strobe_signal_write(c)
    \/ Return(c)

NextIface ==
    \/ CallInterface(1)
    \/ StepInterface(1)

SpecIface == InitIface /\ [][NextIface]_vars

\* ------------------- two callers in set_signals on the same Interface
Other(c) == 3 - c

\* the signals the call caller c is in names
Named(c) == IF call[c].name = "set_signals" THEN DOMAIN call[c].arg[1] ELSE {}

\* the control register all clear or all set
InitConc ==
    /\ IODIRA = INPUT
    /\ IODIRB = OUTPUT
    /\ OLATA = 0
    /\ OLATB \in {0, 255}
    /\ ISR = 0
    /\ OSR = 0
    /\ IDR = 0
    /\ InitCallers

\* a caller enters set_signals, naming valid signals the other caller's
\* call does not name
CallConcurrent(c) ==
    /\ call[c] = Idle
    /\ \E kw \in Kwargs :
          /\ DOMAIN kw # {}
          /\ DOMAIN kw \subseteq SignalNames
          /\ DOMAIN kw \cap Named(Other(c)) = {}
          /\ Enter(c, "set_signals", << kw >>, << SetSignals(kw) >>)

\* there is no lock in Interface: the transactions of the two calls
\* interleave. Each caller makes one call and waits at its return for the
\* other.
NextConc ==
    \E c \in Callers :
        \/ CallConcurrent(c)
        \/ set_signals_read(c)
        \/ set_signals_write(c)

SpecConc == InitConc /\ [][NextConc]_vars

\* ----------------------------- two Links sharing one Interface
\* both Links constructed, at 10 Mbit/s, on the same fresh Interface
InitShared ==
    /\ IODIRA = INPUT
    /\ IODIRB = OUTPUT
    /\ OLATA = 0
    /\ OLATB = shl1(index("NotCS"))
    /\ ISR = 0
    /\ OSR = 0
    /\ IDR \in Bytes
    /\ link = [c \in Callers |-> [constructed |-> TRUE, linkspeed |-> 10]]
    /\ call = [c \in Callers |-> Idle]
    /\ todo = [c \in Callers |-> << >>]
    /\ ipc = [c \in Callers |-> 0]
    /\ control_word = [c \in Callers |-> 0]
    /\ data = [c \in Callers |-> 0]
    /\ exc = [c \in Callers |-> "none"]
    /\ pre = [c \in Callers |-> NoFrame]
    /\ log = [c \in Callers |-> << >>]

\* the other caller is not inside an Interface call
Turn(c) == ipc[Other(c)] = 0

\* a caller calls a method of its Link
CallShared(c) == Turn(c) /\ CallLink(c)

\* a caller takes the next transaction of the Interface call it is in, or
\* starts its method's next Interface call
StepShared(c) ==
    /\ Turn(c)
    /\ \/ read_data_dir(c)
       \/ read_data_sample(c)
       \/ write_data_dir(c)
       \/ write_data_latch(c)
       \/ set_signals_read(c)
       \/ set_signals_write(c)
       \/ strobe_signal_read(c)
       \/ strobe_signal_write(c)

\* there is no lock in Interface or Link: the callers interleave, here
\* between Interface calls (a caller inside an Interface call finishes it
\* before the other caller takes a step). Each caller makes one call and
\* waits at its return for the other.
NextShared ==
    \E c \in Callers :
        \/ CallShared(c)
        \/ StepShared(c)

SpecShared == InitShared /\ [][NextShared]_vars

\* ------------------------------------------------- reading a caller's log
\* writes to the control register
CtlWrites(l) == { i \in 1..Len(l) : l[i].rw = "w" /\ l[i].reg = "OLATB" }

\* writes to the data port's output latch
DataWrites(l) == { i \in 1..Len(l) : l[i].rw = "w" /\ l[i].reg = "OLATA" }

\* samples of the data bus
BusReads(l) == { i \in 1..Len(l) : l[i].rw = "r" /\ l[i].reg = "GPIOA" }

\* control writes that take signal s from high to low, from low to high
Falls(l, s) == { i \in CtlWrites(l) : Sig(l[i].ctl, s) /\ ~Sig(l[i].val, s) }
Rises(l, s) == { i \in CtlWrites(l) : ~Sig(l[i].ctl, s) /\ Sig(l[i].val, s) }

\* control writes that change a register-select line
SelectChanges(l) ==
    { i \in CtlWrites(l) : \E s \in {"RnotW", "RS0", "RS1"} : Sig(l[i].ctl, s) # Sig(l[i].val, s) }

\* caller c stands at the return of operation `name`, which did not raise
Returning(c, name) == AtReturn(c) /\ call[c].name = name /\ exc[c] = "none"

\* a control word with signal s masked out
Without(w, s) == w - Bit(w, index(s)) * shl1(index(s))

\* ------------------------------------------------------------------ C1
\* C1: a Link constructed on an existing Interface with a link speed other
\* than 10 or 20 fails having written nothing: every expander register
\* holds at the failure what it held before the construction.
C1_FailedConstructionWritesNothing ==
    (AtReturn(1) /\ call[1].name = "Link" /\ call[1].arg[1] /\ exc[1] = "ValueError")
        => /\ Registers = pre[1]
           /\ \A i \in 1..Len(log[1]) : log[1][i].rw # "w"

\* ------------------------------------------------------------------ C2
\* C2: construction with speed 10 leaves the LinkSpeed bit 0 and with speed
\* 20 leaves it 1, and the bit keeps that value in every state of every
\* later operation of the Link.
C2_LinkSpeedHeld ==
    /\ Returning(1, "Link") => (Sig(OLATB, "LinkSpeed") <=> (call[1].arg[2] = 20))
    /\ link[1].constructed =>
          /\ link[1].linkspeed \in {10, 20}
          /\ Sig(OLATB, "LinkSpeed") <=> (link[1].linkspeed = 20)

C2_Witness ==
    /\ link[1].constructed
    /\ link[1].linkspeed = 20
    /\ call[1].name = "write"
    /\ ~Sig(OLATB, "NotCS")
    /\ Sig(OLATB, "LinkSpeed")

\* ------------------------------------------------------------------ C3
\* C3: once write, enable_interrupts or disable_interrupts has returned,
\* and whenever no operation is in progress, the data port is an input.
C3_DataPortInputAfterWrite ==
    /\ (AtReturn(1) /\ call[1].name \in {"write", "enable_interrupts", "disable_interrupts"})
          => IODIRA = INPUT
    /\ call[1] = Idle => IODIRA = INPUT

\* ------------------------------------------------------------------ C4
\* C4: write(b) opens exactly one chip-select window; in every state of the
\* window the data port is an output latching b and the control register
\* selects the output data register for write; b is latched before NotCS
\* goes low.
C4_WriteWindow ==
    /\ (call[1].name = "write" /\ ~Sig(OLATB, "NotCS")) =>
          /\ IODIRA = OUTPUT
          /\ OLATA = call[1].arg[1]
          /\ ~Sig(OLATB, "RnotW") /\ Sig(OLATB, "RS0") /\ ~Sig(OLATB, "RS1")
          /\ Sig(OLATB, "Status")
    /\ Returning(1, "write") =>
          /\ Cardinality(Falls(log[1], "NotCS")) = 1
          /\ Cardinality(Rises(log[1], "NotCS")) = 1
          /\ Sig(OLATB, "NotCS")
          /\ \A f \in Falls(log[1], "NotCS") :
                \E d \in DataWrites(log[1]) : d < f /\ log[1][d].val = call[1].arg[1]

C4_Witness ==
    /\ call[1].name = "write"
    /\ call[1].arg[1] = 2
    /\ ~Sig(OLATB, "NotCS")
    /\ OLATA = 2

\* ------------------------------------------------------------------ C7
\* C7: data_present() returns true iff bit 0 of the input status register
\* is 1, output_ready() iff bit 0 of the output status register is 1; the
\* bus is sampled only while NotCS is low.
C7_StatusPolls ==
    /\ Returning(1, "data_present") => (ReturnValue(1) <=> (ISR % 2 = 1))
    /\ Returning(1, "output_ready") => (ReturnValue(1) <=> (OSR % 2 = 1))
    /\ \A i \in BusReads(log[1]) : ~Sig(log[1][i].ctl, "NotCS")

C7_Witness ==
    /\ Returning(1, "data_present")
    /\ ISR = 1
    /\ OSR = 2
    /\ ReturnValue(1)

\* ------------------------------------------------------------------ C8
\* the chip-select pulses between log positions a and b: one falling edge
\* followed by one rising edge
OnePulse(l, a, b) ==
    LET f == { i \in Falls(l, "NotCS") : a < i /\ i < b }
        r == { i \in Rises(l, "NotCS") : a < i /\ i < b }
    IN  /\ Cardinality(f) = 1
        /\ Cardinality(r) = 1
        /\ \A i \in f : \A j \in r : i < j

\* the interrupt-enable sequence writing v: two data-port writes of v, the
\* first with the input status register selected for write, the second with
\* the output status register selected, each followed by one chip-select
\* pulse before the next change of the select lines
InterruptSequence(l, v) ==
    /\ Cardinality(DataWrites(l)) = 2
    /\ \E d1, d2 \in DataWrites(l) :
          /\ d1 < d2
          /\ l[d1].val = v /\ l[d2].val = v
          /\ ~Sig(l[d1].ctl, "RnotW") /\ ~Sig(l[d1].ctl, "RS0") /\ Sig(l[d1].ctl, "RS1")
          /\ ~Sig(l[d2].ctl, "RnotW") /\ Sig(l[d2].ctl, "RS0") /\ Sig(l[d2].ctl, "RS1")
          /\ \E c \in SelectChanges(l) :
                /\ d1 < c /\ c < d2
                /\ \A x \in SelectChanges(l) : x <= d1 \/ x >= c
                /\ OnePulse(l, d1, c)
          /\ \A x \in SelectChanges(l) : x < d2
          /\ OnePulse(l, d2, Len(l) + 1)

\* C8: enable_interrupts (0x02) and disable_interrupts (0x00) each issue
\* exactly two data-port writes of the value, to the input status register
\* and then the output status register, each followed by one chip-select
\* pulse, and Status is clear at the return.
C8_InterruptWrites ==
    /\ Returning(1, "enable_interrupts") =>
          InterruptSequence(log[1], 2) /\ ~Sig(OLATB, "Status")
    /\ Returning(1, "disable_interrupts") =>
          InterruptSequence(log[1], 0) /\ ~Sig(OLATB, "Status")

C8_Witness ==
    /\ Returning(1, "enable_interrupts")
    /\ OLATA = 2
    /\ Cardinality(Falls(log[1], "NotCS")) = 2

\* ------------------------------------------------------------------ C10
\* reset leaves every control bit but LinkReset as it found it
ResetFrame == call[1].name = "reset" => Without(OLATB, "LinkReset") = Without(pre[1].OLATB, "LinkReset")

\* reset() pulses LinkReset and returns it to its prior level
ResetPulse ==
    (Returning(1, "reset") /\ Len(call[1].arg) = 0) =>
        /\ OLATB = pre[1].OLATB
        /\ \E i \in CtlWrites(log[1]) :
              Sig(log[1][i].val, "LinkReset") # Sig(pre[1].OLATB, "LinkReset")

\* reset(b) latches LinkReset to b
ResetLatch ==
    (Returning(1, "reset") /\ Len(call[1].arg) = 1) =>
        (Sig(OLATB, "LinkReset") <=> call[1].arg[1])

\* outside reset calls the level of LinkReset does not change
ResetLevelKept ==
    (call[1].name # "reset" /\ call'[1].name # "reset")
        => (Sig(OLATB', "LinkReset") <=> Sig(OLATB, "LinkReset"))

\* C10: reset() pulses LinkReset (its level after the call equals its level
\* before), reset(b) leaves LinkReset equal to b until the next reset call,
\* and in both cases no other control bit changes.
C10_Reset == [](ResetFrame /\ ResetPulse /\ ResetLatch) /\ [][ResetLevelKept]_vars

\* a pulse on a LinkReset line that an earlier reset(TRUE) left high
C10_Witness ==
    /\ Returning(1, "reset")
    /\ Len(call[1].arg) = 0
    /\ Sig(pre[1].OLATB, "LinkReset")
    /\ Sig(OLATB, "LinkReset")
    /\ \E i \in CtlWrites(log[1]) : ~Sig(log[1][i].val, "LinkReset")

\* ------------------------------------------------------------------ C5
\* C5 as stated: a single call strobe_signal(s) leaves the control register
\* equal to its prior value with bit s flipped, only that bit changed.
C5_StrobeLeavesBitFlipped ==
    (Returning(1, "strobe_signal") /\ Len(call[1].arg) = 1) =>
        OLATB = XorBit(pre[1].OLATB, index(call[1].arg[1]))

\* C5 amended: a single call strobe_signal(s) writes the prior value with
\* only bit s flipped and then flips the bit back itself: at its return the
\* control register equals its prior value.
C5_StrobeRestoresBit ==
    (Returning(1, "strobe_signal") /\ Len(call[1].arg) = 1) =>
        /\ OLATB = pre[1].OLATB
        /\ \E i \in CtlWrites(log[1]) :
              log[1][i].val = XorBit(pre[1].OLATB, index(call[1].arg[1]))

C5_Witness ==
    /\ Returning(1, "strobe_signal")
    /\ call[1].arg = << "NotCS" >>
    /\ Sig(pre[1].OLATB, "NotCS")
    /\ Sig(pre[1].OLATB, "Status")
    /\ Cardinality(Falls(log[1], "NotCS")) = 1

\* ------------------------------------------------------------------ C6
\* C6: for every prior control-register value and every mapping of valid
\* signal names to booleans, set_signals issues exactly one write to the
\* control register, after which each named bit equals its requested value
\* and every other bit is unchanged.
C6_SetSignalsFrame ==
    (Returning(1, "set_signals") /\ DOMAIN call[1].arg[1] \subseteq SignalNames) =>
        /\ Cardinality(CtlWrites(log[1])) = 1
        /\ \A s \in SignalNames :
              Sig(OLATB, s) <=> (IF s \in DOMAIN call[1].arg[1]
                                 THEN call[1].arg[1][s]
                                 ELSE Sig(pre[1].OLATB, s))

C6_Witness ==
    /\ Returning(1, "set_signals")
    /\ DOMAIN call[1].arg[1] = {"RS0", "Status"}
    /\ call[1].arg[1]["RS0"] /\ ~call[1].arg[1]["Status"]
    /\ pre[1].OLATB = 255
    /\ OLATB = 255 - 64

\* ------------------------------------------------------------------ C9
\* C9: when two callers run set_signals concurrently on one Interface with
\* disjoint signal sets, the control register ends holding the requested
\* value of every bit either call named, in every interleaving.
C9_NoLostUpdate ==
    (AtReturn(1) /\ AtReturn(2)) =>
        \A c \in Callers : \A s \in Named(c) : Sig(OLATB, s) <=> call[c].arg[1][s]

\* ------------------------------------------------------------------ C11
\* the last write to the data port's direction register before log position i
LastDirection(l, i) ==
    LET w == { j \in 1..(i - 1) : l[j].rw = "w" /\ l[j].reg = "IODIRA" }
    IN  IF w = {} THEN "unset" ELSE l[CHOOSE j \in w : \A k \in w : k <= j].val

\* C11: read() selects the input data register for read, asserts
\* chip-select exactly once, samples the data bus exactly once while NotCS
\* is low and the data port is an input, then deasserts chip-select and
\* Status, and returns the sampled byte unchanged; it makes no access to a
\* status register.
C11_ReadSequence ==
    Returning(1, "read") =>
        /\ Cardinality(Falls(log[1], "NotCS")) = 1
        /\ Cardinality(Rises(log[1], "NotCS")) = 1
        /\ Cardinality(BusReads(log[1])) = 1
        /\ DataWrites(log[1]) = {}
        /\ \A r \in BusReads(log[1]) :
              /\ \A f \in Falls(log[1], "NotCS") : f < r
              /\ \A u \in Rises(log[1], "NotCS") : r < u
              /\ ~Sig(log[1][r].ctl, "NotCS")
              /\ Sig(log[1][r].ctl, "RnotW")
              /\ ~Sig(log[1][r].ctl, "RS0") /\ ~Sig(log[1][r].ctl, "RS1")
              /\ Sig(log[1][r].ctl, "Status")
              /\ LastDirection(log[1], r) = INPUT
              /\ ReturnValue(1) = log[1][r].val
              /\ ReturnValue(1) = IDR
        /\ Sig(OLATB, "NotCS")
        /\ ~Sig(OLATB, "Status")

\* read() returns the input data register while the input status register
\* reports no data present
C11_Witness ==
    /\ Returning(1, "read")
    /\ ISR = 0
    /\ IDR = 2
    /\ ReturnValue(1) = 2
    /\ pre[1].IODIRA = OUTPUT

\* ------------------------------------------------------------------ C12
\* C12: set_signals called with a name that is not in the signal table
\* fails with an error and writes nothing to the control register, also
\* when the call names valid signals too: the control register equals its
\* value before the call.
C12_UnknownSignalWritesNothing ==
    (AtReturn(1) /\ call[1].name = "set_signals"
                 /\ ~(DOMAIN call[1].arg[1] \subseteq SignalNames)) =>
        /\ exc[1] = "ValueError"
        /\ CtlWrites(log[1]) = {}
        /\ OLATB = pre[1].OLATB

\* a failed call that named NotCS = True beside the unknown name, NotCS low
C12_Witness ==
    /\ AtReturn(1)
    /\ call[1].name = "set_signals"
    /\ DOMAIN call[1].arg[1] = {"Bogus", "NotCS"}
    /\ call[1].arg[1]["NotCS"]
    /\ ~Sig(pre[1].OLATB, "NotCS")
    /\ exc[1] = "ValueError"

\* ------------------------------------------------------------------ C13
\* C13: strobe_signal called with more than one signal name fails with an
\* error before any hardware access: it issues no register read or write
\* and the control register is unchanged.
C13_MultiNameStrobeTouchesNothing ==
    (AtReturn(1) /\ call[1].name = "strobe_signal" /\ Len(call[1].arg) > 1) =>
        /\ exc[1] = "AttributeError"
        /\ log[1] = << >>
        /\ Registers = pre[1]

C13_Witness ==
    /\ AtReturn(1)
    /\ call[1].name = "strobe_signal"
    /\ call[1].arg = << "NotCS", "LinkReset" >>
    /\ exc[1] = "AttributeError"
    /\ OLATB = 8

\* ------------------------------------------------------------------ C14
LinkAccesses ==
    {"read", "write", "data_present", "output_ready", "enable_interrupts", "disable_interrupts"}

\* C14: in every Link operation that accesses an adapter register, no
\* write to the control register changes NotCS together with RnotW, RS0 or
\* RS1, and the select lines change only while NotCS is high: they hold
\* their value from the write before NotCS goes low until it is high again.
C14_SelectSeparateFromChipSelect ==
    call[1].name \in LinkAccesses =>
        \A i \in SelectChanges(log[1]) :
            /\ i \notin Falls(log[1], "NotCS")
            /\ i \notin Rises(log[1], "NotCS")
            /\ Sig(log[1][i].ctl, "NotCS")

\* a read whose set_signals changes the select lines before NotCS falls
C14_Witness ==
    /\ call[1].name = "read"
    /\ ~Sig(OLATB, "NotCS")
    /\ Cardinality(SelectChanges(log[1])) = 1
    /\ Cardinality(Falls(log[1], "NotCS")) = 1
    /\ \A i \in SelectChanges(log[1]) : \A f \in Falls(log[1], "NotCS") : i < f

\* ------------------------------------------------------------------ C15
\* the caller's last write that took NotCS low, when NotCS has not been
\* raised by the caller since: the caller owns an open chip-select window
WindowOpenedAt(c) ==
    LET f == Falls(log[c], "NotCS")
        r == Rises(log[c], "NotCS")
    IN  IF f = {} THEN 0
        ELSE LET m == CHOOSE j \in f : \A k \in f : k <= j
             IN  IF \E k \in r : k > m THEN 0 ELSE m

\* C15: when two Links share one Interface and interleave between
\* Interface calls, an operation that has asserted chip-select runs to its
\* deassertion without interruption: inside the window no write of the
\* other caller takes effect, so the control register and the data port's
\* direction stay as the window's owner set them.
C15_WindowUninterrupted ==
    \A c \in Callers :
        (call[c] # Idle /\ WindowOpenedAt(c) > 0) =>
            /\ OLATB = log[c][WindowOpenedAt(c)].val
            /\ LastDirection(log[c], Len(log[c]) + 1) \in {"unset", IODIRA}

\* --------------------------------- one Link on a bus whose transfers can fail
\* a constructed Link on a freshly created Interface
InitFail ==
    /\ IODIRA = INPUT
    /\ IODIRB = OUTPUT
    /\ OLATA = 0
    /\ OLATB = shl1(index("NotCS"))
    /\ ISR = 0
    /\ OSR = 0
    /\ IDR \in Bytes
    /\ link = [c \in Callers |-> [constructed |-> (c = 1), linkspeed |-> 10]]
    /\ call = [c \in Callers |-> Idle]
    /\ todo = [c \in Callers |-> << >>]
    /\ ipc = [c \in Callers |-> 0]
    /\ control_word = [c \in Callers |-> 0]
    /\ data = [c \in Callers |-> 0]
    /\ exc = [c \in Callers |-> "none"]
    /\ pre = [c \in Callers |-> NoFrame]
    /\ log = [c \in Callers |-> << >>]

\* the gpio.read or gpio.write the Interface call was about to make raises:
\* no register changes, and neither Interface nor Link catches the exception
bus_error(c) ==
    /\ todo[c] # << >>
    /\ Cur(c).fn \in {"set_signals", "strobe_signal", "read_data", "write_data"}
    /\ Throw(c, "IOError")
    /\ UNCHANGED << hw, adapter, control_word, data, pre, log >>

StepFail(c) ==
    \/ read_data_dir(c)
    \/ read_data_sample(c)
    \/ write_data_dir(c)
    \/ write_data_latch(c)
    \/ set_signals_read(c)
    \/ set_signals_write(c)
    \/ strobe_signal_read(c)
    \/ strobe_signal_write(c)
    \/ bus_error(c)
    \/ Return(c)

NextFail ==
    \/ CallLink(1)
    \/ StepFail(1)

SpecFail == InitFail /\ [][NextFail]_vars

\* ------------------------------------------------------------------ C16
\* the control writes of Link.__init__ proper: those after the three
\* register writes of an Interface it created itself
InitWrites(l, given) == { i \in CtlWrites(l) : given \/ i > 3 }

\* the construction's control writes in order: Reset asserted with NotCS
\* deasserted, LinkSpeed written under Reset, Reset deasserted
ConstructionOrder(l, given, linkspeed) ==
    /\ Cardinality(InitWrites(l, given)) = 3
    /\ \E a, b, c \in InitWrites(l, given) :
          /\ a < b /\ b < c
          /\ Sig(l[a].val, "Reset") /\ Sig(l[a].val, "NotCS")
          /\ Sig(l[b].ctl, "Reset") /\ Sig(l[b].val, "Reset")
          /\ Sig(l[b].val, "LinkSpeed") <=> (linkspeed = 20)
          /\ Sig(l[c].ctl, "Reset") /\ ~Sig(l[c].val, "Reset")
          /\ Sig(l[c].val, "LinkSpeed") <=> (linkspeed = 20)

\* C16: Link construction asserts Reset and deasserts NotCS first, then
\* writes LinkSpeed, then deasserts Reset; the LinkSpeed bit changes only
\* while Reset is asserted; no Link operation accesses the data port or
\* asserts chip-select before Reset has been deasserted.
C16_ConstructionOrder ==
    /\ Returning(1, "Link") => ConstructionOrder(log[1], call[1].arg[1], call[1].arg[2])
    /\ \A i \in CtlWrites(log[1]) :
          (Sig(log[1][i].ctl, "LinkSpeed") # Sig(log[1][i].val, "LinkSpeed"))
              => (Sig(log[1][i].ctl, "Reset") /\ Sig(log[1][i].val, "Reset"))
    /\ call[1].name \in LinkAccesses =>
          /\ ~Sig(OLATB, "Reset")
          /\ \A i \in 1..Len(log[1]) : ~Sig(log[1][i].ctl, "Reset")

\* a 20 Mbit/s Link constructed on an Interface it created itself
C16_Witness ==
    /\ Returning(1, "Link")
    /\ call[1].arg = << FALSE, 20 >>
    /\ Sig(OLATB, "LinkSpeed")
    /\ ~Sig(OLATB, "Reset")
    /\ Cardinality(CtlWrites(log[1])) = 4

\* ------------------------------------------------------------------ C17
\* the value register `reg` holds after the transactions of l, from `was`
RECURSIVE Replay(_, _, _)
Replay(l, reg, was) ==
    IF l = << >> THEN was
    ELSE IF l[Len(l)].rw = "w" /\ l[Len(l)].reg = reg THEN l[Len(l)].val
    ELSE Replay(SubSeq(l, 1, Len(l) - 1), reg, was)

\* the operation has ended with the bus error and made no Interface call
\* since; the registers are what its completed writes left
FailedHere(c) ==
    /\ AtReturn(c)
    /\ ipc[c] = 0
    /\ OLATB = Replay(log[c], "OLATB", pre[c].OLATB)
    /\ OLATA = Replay(log[c], "OLATA", pre[c].OLATA)
    /\ IODIRA = Replay(log[c], "IODIRA", pre[c].IODIRA)
    /\ IODIRB = pre[c].IODIRB

\* C17: a bus transaction failing inside a Link operation ends the
\* operation with the error; from then on it makes no register read or
\* write, so the registers stay as they were at the failing transaction.
C17_BusErrorStopsOperation ==
    /\ [](exc[1] = "IOError" => FailedHere(1))
    /\ [][exc[1] = "IOError" /\ call'[1] # Idle => UNCHANGED << hw, log >>]_vars

\* read() has failed between its two NotCS writes, after an earlier write()
\* failed before clearing Status: chip-select is left low and Status set
C17_Witness ==
    /\ exc[1] = "IOError"
    /\ call[1].name = "read"
    /\ AtReturn(1)
    /\ ~Sig(OLATB, "NotCS")
    /\ Sig(OLATB, "Status")
    /\ Len(log[1]) > 0

\* ------------------------------------------------------------------ C18
\* C18: one call strobe_signal(s) makes exactly two control-register
\* writes, back to back: the first is the prior value with only bit s
\* inverted, the second the prior value again, so the call has no net
\* effect and the pulse is the inverse of the level s had before it.
C18_StrobeIsOnePulse ==
    (Returning(1, "strobe_signal") /\ Len(call[1].arg) = 1) =>
        LET s == call[1].arg[1]
            l == log[1]
            was == pre[1].OLATB
        IN  /\ Len(l) = 4
            /\ CtlWrites(l) = {2, 4}
            /\ l[3].rw = "r" /\ l[3].reg = "OLATB"
            /\ Sig(l[2].val, s) # Sig(was, s)
            /\ Without(l[2].val, s) = Without(was, s)
            /\ l[4].val = was
            /\ OLATB = was
            /\ Sig(was, "NotCS") => Falls(l, "NotCS") \subseteq {2}
            /\ (s = "NotCS" /\ Falls(l, "NotCS") = {2}) <=> (s = "NotCS" /\ Sig(was, "NotCS"))

\* strobe_signal("LinkReset") called while LinkReset is high: the pulse
\* goes low and comes back high
C18_Witness ==
    /\ Returning(1, "strobe_signal")
    /\ call[1].arg = << "LinkReset" >>
    /\ Sig(pre[1].OLATB, "LinkReset")
    /\ Falls(log[1], "LinkReset") = {2}
    /\ Rises(log[1], "LinkReset") = {4}

\* ------------------------------------------------------------------ C19
\* no Link operation is in progress: before the first one, and from the
\* return of each one on
Quiescent(c) ==
    \/ link[c].constructed /\ call[c] = Idle
    \/ link[c].constructed /\ AtReturn(c)
    \/ Returning(c, "Link")

\* C19: on a freshly created Interface with a successfully constructed
\* Link, whenever no Link operation is in progress the control register has
\* NotCS = 1, Status = 0 and Reset = 0.
C19_QuiescentControl ==
    Quiescent(1) =>
        /\ Sig(OLATB, "NotCS")
        /\ ~Sig(OLATB, "Status")
        /\ ~Sig(OLATB, "Reset")

\* write(), which raises Status and pulses NotCS, has returned
C19_Witness ==
    /\ Returning(1, "write")
    /\ link[1].constructed
    /\ Cardinality(Rises(log[1], "Status")) = 1
    /\ Cardinality(Falls(log[1], "NotCS")) = 1
    /\ Sig(OLATB, "NotCS")
    /\ ~Sig(OLATB, "Status")

\* ------------------------------------------------------------------ C20
\* C20: the host never drives the data bus while the adapter is addressed
\* for a read: the data port is never an output while NotCS is low and
\* RnotW is high.
C20_NoBusContention ==
    ~(IODIRA = OUTPUT /\ ~Sig(OLATB, "NotCS") /\ Sig(OLATB, "RnotW"))

=============================================================================
